---- MODULE Spec2Model ----
(***************************************************************************)
(* A model of codeunify.py: the CodeCompiler class.  Strings are sequences *)
(* of one-character strings, a path is the sequence of its segments        *)
(* (Path.parts relative to root_dir), and the output document is the       *)
(* sequence of the chunks that outfile.write() was called with.            *)
(***************************************************************************)
EXTENDS Integers, Sequences, FiniteSets, TLC

(***************************************************************************)
(* Bounds of the model.                                                    *)
(***************************************************************************)
\* the largest number of regular files in the scanned tree
MaxFiles == 2

(***************************************************************************)
(* Characters and strings.                                                 *)
(***************************************************************************)
\* code points of the characters the model's strings are made of (str
\* comparison in Python is by code point)
Ord ==
  (" " :> 32) @@ ("!" :> 33) @@ ("#" :> 35) @@ ("*" :> 42) @@ ("-" :> 45) @@
  ("." :> 46) @@ ("/" :> 47) @@ ("?" :> 63) @@ ("A" :> 65) @@ ("D" :> 68) @@
  ("E" :> 69) @@ ("M" :> 77) @@ ("P" :> 80) @@ ("R" :> 82) @@ ("Y" :> 89) @@
  ("[" :> 91) @@ ("]" :> 93) @@ ("_" :> 95) @@ ("a" :> 97) @@ ("b" :> 98) @@
  ("c" :> 99) @@ ("d" :> 100) @@ ("e" :> 101) @@ ("f" :> 102) @@
  ("g" :> 103) @@ ("h" :> 104) @@ ("i" :> 105) @@ ("k" :> 107) @@ ("l" :> 108) @@
  ("m" :> 109) @@ ("n" :> 110) @@ ("o" :> 111) @@ ("p" :> 112) @@
  ("r" :> 114) @@ ("s" :> 115) @@ ("t" :> 116) @@ ("u" :> 117) @@
  ("x" :> 120) @@ ("y" :> 121) @@ ("z" :> 122) @@ ("\n" :> 10)

\* str.lower() on one character
LowerChar(c) ==
  IF Ord[c] >= 65 /\ Ord[c] <= 90
    THEN CHOOSE d \in DOMAIN Ord : Ord[d] = Ord[c] + 32
    ELSE c

\* str.lower()
Lower(s) == [i \in 1..Len(s) |-> LowerChar(s[i])]

\* str.strip(): drops leading and trailing whitespace
IsSpace(c) == c \in {" ", "\n"}

RECURSIVE LStrip(_)
LStrip(s) == IF s /= <<>> /\ IsSpace(Head(s)) THEN LStrip(Tail(s)) ELSE s

RECURSIVE RStrip(_)
RStrip(s) ==
  IF s /= <<>> /\ IsSpace(s[Len(s)]) THEN RStrip(SubSeq(s, 1, Len(s) - 1)) ELSE s

Strip(s) == RStrip(LStrip(s))

\* str.startswith / str.endswith for a one-character argument
StartsWith(s, c) == s /= <<>> /\ Head(s) = c

EndsWith(s, c) == s /= <<>> /\ s[Len(s)] = c

\* s.lstrip('.')
RECURSIVE LStripDots(_)
LStripDots(s) == IF s /= <<>> /\ Head(s) = "." THEN LStripDots(Tail(s)) ELSE s

\* str < str: lexicographic by code point, a proper prefix is smaller
RECURSIVE StrLess(_, _)
StrLess(s, t) ==
  IF t = <<>> THEN FALSE
  ELSE IF s = <<>> THEN TRUE
  ELSE IF Head(s) /= Head(t) THEN Ord[Head(s)] < Ord[Head(t)]
  ELSE StrLess(Tail(s), Tail(t))

ensure_leading_dot(ext) == <<".">> \o LStripDots(Lower(ext))

(***************************************************************************)
(* Paths.                                                                  *)
(***************************************************************************)
\* Path.as_posix() of a path relative to root_dir: the parts joined by "/"
RECURSIVE as_posix(_)
as_posix(p) ==
  IF Len(p) = 0 THEN <<>>
  ELSE IF Len(p) = 1 THEN p[1]
  ELSE p[1] \o <<"/">> \o as_posix(Tail(p))

\* index of the last "." of a name, 0 when there is none (str.rfind + 1)
RECURSIVE RFindDot(_)
RFindDot(name) ==
  IF name = <<>> THEN 0
  ELSE IF name[Len(name)] = "." THEN Len(name)
  ELSE RFindDot(SubSeq(name, 1, Len(name) - 1))

\* Path.suffix: the last dot-separated part of the final segment, with its
\* dot; empty when the name has no dot, starts with its only dot or ends
\* with a dot
Suffix(p) ==
  LET name == p[Len(p)]
      i == RFindDot(name)
  IN  IF 1 < i /\ i < Len(name) THEN SubSeq(name, i, Len(name)) ELSE <<>>

\* Path < Path for two paths under the same root: the tuples of parts are
\* compared, element by element, each element as a str
RECURSIVE PathLess(_, _)
PathLess(p, q) ==
  IF q = <<>> THEN FALSE
  ELSE IF p = <<>> THEN TRUE
  ELSE IF Head(p) /= Head(q) THEN StrLess(Head(p), Head(q))
  ELSE PathLess(Tail(p), Tail(q))

(***************************************************************************)
(* fnmatch.fnmatch(name, pat): shell-style matching of a whole string.     *)
(* "*" matches any run of characters ("/" included), "?" one character,    *)
(* "[seq]" one character of seq (ranges "a-c" allowed), "[!seq]" one       *)
(* character not in seq; a "[" without a closing "]" is a literal.         *)
(* os.path.normcase is the identity on POSIX.                              *)
(***************************************************************************)
\* index of the "]" that closes a class whose body starts at rest[1], or 0:
\* a leading "!" and a "]" right after it are part of the body
RECURSIVE ScanClose(_, _)
ScanClose(rest, j) ==
  IF j > Len(rest) THEN 0
  ELSE IF rest[j] = "]" THEN j
  ELSE ScanClose(rest, j + 1)

ClassClose(rest) ==
  LET j1 == IF Len(rest) >= 1 /\ rest[1] = "!" THEN 2 ELSE 1
      j2 == IF Len(rest) >= j1 /\ rest[j1] = "]" THEN j1 + 1 ELSE j1
  IN  ScanClose(rest, j2)

\* c is one of the characters a class body (negation mark removed) lists
RECURSIVE InClass(_, _)
InClass(c, body) ==
  IF body = <<>> THEN FALSE
  ELSE IF Len(body) >= 3 /\ body[2] = "-"
    THEN \/ (Ord[body[1]] <= Ord[c] /\ Ord[c] <= Ord[body[3]])
         \/ InClass(c, SubSeq(body, 4, Len(body)))
  ELSE c = body[1] \/ InClass(c, Tail(body))

ClassMatches(c, stuff) ==
  IF StartsWith(stuff, "!") THEN ~InClass(c, Tail(stuff)) ELSE InClass(c, stuff)

\* fnmatch.fnmatch on a POSIX system (no case folding).  The tails are bound
\* by \E so that each is computed once.
RECURSIVE fnmatch(_, _)
fnmatch(name, pat) ==
  IF pat = <<>> THEN name = <<>>
  ELSE IF Head(pat) = "*"
    THEN \/ \E q \in {Tail(pat)} : fnmatch(name, q)
         \/ (name /= <<>> /\ \E n \in {Tail(name)} : fnmatch(n, pat))
  ELSE IF name = <<>> THEN FALSE
  ELSE IF Head(pat) = "?"
    THEN \E n \in {Tail(name)}, q \in {Tail(pat)} : fnmatch(n, q)
  ELSE IF Head(pat) = "[" /\ ClassClose(Tail(pat)) > 0
    THEN \E j \in {ClassClose(Tail(pat))} :
           /\ ClassMatches(Head(name), SubSeq(Tail(pat), 1, j - 1))
           /\ \E n \in {Tail(name)}, q \in {SubSeq(Tail(pat), j + 1, Len(Tail(pat)))} :
                fnmatch(n, q)
  ELSE Head(name) = Head(pat)
         /\ \E n \in {Tail(name)}, q \in {Tail(pat)} : fnmatch(n, q)

(***************************************************************************)
(* The scanned tree, the arguments and the environment.                    *)
(***************************************************************************)
\* root-relative paths of the regular files a tree may hold
P_a_b_py == <<<<"a">>, <<"b", ".", "p", "y">>>>

P_a_dash_b_py == <<<<"a", "-", "b", ".", "p", "y">>>>

P_secrets_key_txt ==
  <<<<"s", "e", "c", "r", "e", "t", "s">>, <<"k", "e", "y", ".", "t", "x", "t">>>>

P_git_config == <<<<".", "g", "i", "t">>, <<"c", "o", "n", "f", "i", "g">>>>

P_README == <<<<"R", "E", "A", "D", "M", "E">>>>

P_M_PY == <<<<"M", ".", "P", "Y">>>>

Universe ==
  {P_a_b_py, P_a_dash_b_py, P_secrets_key_txt, P_git_config, P_README, P_M_PY}

\* output_file when it lies under root_dir: the default "code_compilation.txt"
\* with the current directory as the source directory
OutPath ==
  <<<<"c", "o", "d", "e", "_", "c", "o", "m", "p", "i", "l", "a", "t", "i", "o", "n",
      ".", "t", "x", "t">>>>

\* what a read of a file does: read_text(utf-8) returns content; utf-8 fails
\* and read_text(latin-1) returns content; read_text raises OSError; utf-8
\* fails to decode and the second read raises
FileKinds ==
  {[read |-> "utf8", content |-> c] : c \in {<<>>, <<"x">>, <<"x", "\n">>}}
    \cup {[read |-> "latin1", content |-> <<"z">>],
          [read |-> "oserror", content |-> <<>>],
          [read |-> "decode_then_error", content |-> <<>>]}

\* what a read of the output file returns while it is open for writing: the
\* part of the document that has reached the disk
OutKinds == {[read |-> "utf8", content |-> c] : c \in {<<>>, <<"x">>}}

\* the entries of DEFAULT_EXCLUDE_PATTERNS the model keeps; of the whole list
\* only ".git" matches a path of Universe or OutPath
DEFAULT_EXCLUDE_PATTERNS ==
  <<<<"*", "/", ".", "g", "i", "t", "/", "*">>,
    <<".", "g", "i", "t">>,
    <<"*", ".", "l", "o", "g">>>>

\* the extensions argument: not given, or a set of strings as typed
NoExtensions == [given |-> FALSE, exts |-> {}]

ExtensionArgs ==
  {NoExtensions,
   [given |-> TRUE, exts |-> {<<"P", "Y">>, <<".", "t", "x", "t">>}],
   [given |-> TRUE, exts |-> {<<"x", "y", "z">>}]}

\* a file that does not exist, and one that exists but cannot be read
NoFile == [exists |-> FALSE, readable |-> FALSE, lines |-> <<>>]

Unreadable == [exists |-> TRUE, readable |-> FALSE, lines |-> <<>>]

TextFile(ls) == [exists |-> TRUE, readable |-> TRUE, lines |-> ls]

\* .gitignore as gitignore_parser.parse sees it: the set of paths of the
\* tree its matcher answers True for (the library is not part of this code)
NoGitignore == [exists |-> FALSE, parses |-> FALSE, matched |-> {}]

BadGitignore == [exists |-> TRUE, parses |-> FALSE, matched |-> {}]

Gitignore(m) == [exists |-> TRUE, parses |-> TRUE, matched |-> m]

\* the rule inputs of a run with no --exclude, no custom ignore file and no
\* .gitignore
DefaultRules ==
  [extra |-> <<>>, ignore_file |-> NoFile, use_gitignore |-> TRUE,
   gitignore |-> NoGitignore]

\* lines of a custom ignore file, as iterating over the file yields them
L_comment == <<"#", "c", "\n">>

L_indented_comment == <<" ", " ", "#", " ", "n", "o", "t", "e", "\n">>

L_blank == <<" ", "\n">>

L_txt == <<"*", ".", "t", "x", "t", "\n">>

L_class == <<" ", "[", "a", "-", "c", "]", "-", "*", "\n">>

\* a bare directory name
L_secrets == <<"s", "e", "c", "r", "e", "t", "s", "\n">>

\* the --exclude pattern "secrets/*"
X_secrets_star == <<"s", "e", "c", "r", "e", "t", "s", "/", "*">>

\* the sources of ignore rules: --exclude patterns, the custom ignore file,
\* --no-gitignore and the .gitignore file
RuleInputs ==
  {DefaultRules,
   [extra |-> <<X_secrets_star>>, ignore_file |-> Unreadable,
    use_gitignore |-> TRUE, gitignore |-> Gitignore({P_a_b_py})],
   [extra |-> <<>>,
    ignore_file |-> TextFile(<<L_comment, L_indented_comment, L_txt, L_blank, L_class>>),
    use_gitignore |-> TRUE, gitignore |-> BadGitignore],
   [extra |-> <<>>, ignore_file |-> TextFile(<<L_secrets>>),
    use_gitignore |-> FALSE, gitignore |-> Gitignore({P_a_b_py})]}

\* a file of plain text that ends with a newline
PlainFile == [read |-> "utf8", content |-> <<"x", "\n">>]

\* the trees: at most MaxFiles regular files, each with what reading it does
TreesOver(paths, kinds) ==
  UNION {[fs -> kinds] : fs \in {f \in SUBSET paths : Cardinality(f) <= MaxFiles}}

\* the inputs of a run: any files of Universe, all plain, under any rules
\* and extensions; or files of any kind under the default rules with the
\* extensions detected
Inputs ==
  {[tree |-> tr, rules |-> r, extensions |-> e] :
     tr \in TreesOver(Universe, {PlainFile}), r \in RuleInputs, e \in ExtensionArgs}
    \cup {[tree |-> tr, rules |-> DefaultRules, extensions |-> NoExtensions] :
            tr \in TreesOver({P_M_PY, P_a_dash_b_py}, FileKinds)}

\* the output destination: outside root_dir in a directory that does not
\* exist yet; under root_dir and not there; under root_dir, left by an
\* earlier run
Outputs ==
  {[under_root |-> FALSE, parent_exists |-> FALSE, exists |-> FALSE],
   [under_root |-> TRUE, parent_exists |-> TRUE, exists |-> FALSE],
   [under_root |-> TRUE, parent_exists |-> TRUE, exists |-> TRUE]}

(***************************************************************************)
(* State.                                                                  *)
(***************************************************************************)
VARIABLES
  tree,                   \* the regular files under root_dir: path -> kind
  rules,                  \* the ignore-rule inputs, one of RuleInputs
  extensions,             \* the extensions argument
  out_under_root,         \* output_file lies under root_dir (it is OutPath)
  out_parent_exists,      \* output_file.parent is a directory
  out_exists,             \* output_file is a file
  out_doc,                \* the chunks written to output_file
  user_extensions,        \* self.user_extensions: [given, exts]
  all_exclude_patterns,   \* self.all_exclude_patterns
  custom_ignore_patterns, \* self.custom_ignore_patterns
  gitignore_matches,      \* self.gitignore_matches: [given, matched]
  detected_extensions,    \* self.detected_extensions
  pc,                     \* "new", "ready", "open", "loop", "done"
  files_to_process,       \* compile(): the list of selected paths
  final_extensions,       \* compile(): the extension set collection returned
  scanned,                \* compile(): the regular files rglob yielded
  idx,                    \* compile(): position of the for loop, 0 before it
  content,                \* compile(): the local variable content
  processed_count,        \* compile(): processed_count
  error_count,            \* compile(): error_count
  caught,                 \* compile(): the exception its try statement ended with
  result,                 \* how compile() ended: "none", "true", "false", "raised"
  second_run,             \* compile() is running for the second time
  prev_run                \* the sections the first run wrote and what it caught

vars ==
  <<tree, rules, extensions, out_under_root, out_parent_exists, out_exists,
    out_doc, user_extensions, all_exclude_patterns, custom_ignore_patterns,
    gitignore_matches, detected_extensions, pc, files_to_process,
    final_extensions, scanned, idx, content, processed_count, error_count,
    caught, result, second_run, prev_run>>

env_vars == <<tree, rules, extensions, out_under_root>>

object_vars ==
  <<user_extensions, all_exclude_patterns, custom_ignore_patterns,
    gitignore_matches>>

out_vars == <<out_parent_exists, out_exists, out_doc>>

\* a local variable that no assignment has bound yet
Unbound == [bound |-> FALSE, text |-> <<>>]

Bound(text) == [bound |-> TRUE, text |-> text]

\* what a previous, unrelated run left in output_file
StaleDoc == <<[t |-> "stale"]>>

(***************************************************************************)
(* Init: the arguments and the environment, before CodeCompiler(...).      *)
(***************************************************************************)
Init ==
  /\ \E in \in Inputs :
       /\ tree = in.tree
       /\ rules = in.rules
       /\ extensions = in.extensions
  /\ \E out \in Outputs :
       /\ out_under_root = out.under_root
       /\ out_parent_exists = out.parent_exists
       /\ out_exists = out.exists
  /\ out_doc = IF out_exists THEN StaleDoc ELSE <<>>
  /\ user_extensions = NoExtensions
  /\ all_exclude_patterns = <<>>
  /\ custom_ignore_patterns = <<>>
  /\ gitignore_matches = [given |-> FALSE, matched |-> {}]
  /\ detected_extensions = {}
  /\ pc = "new"
  /\ files_to_process = <<>>
  /\ final_extensions = {}
  /\ scanned = {}
  /\ idx = 0
  /\ content = Unbound
  /\ processed_count = 0
  /\ error_count = 0
  /\ caught = "none"
  /\ result = "none"
  /\ second_run = FALSE
  /\ prev_run = [sections |-> <<>>, caught |-> "none"]

(***************************************************************************)
(* CodeCompiler.__init__ and _load_ignore_rules.                           *)
(***************************************************************************)
\* the list comprehension of _load_ignore_rules over the lines of the file
CustomPatterns(lines) ==
  LET Keep(line) == Strip(line) /= <<>> /\ ~StartsWith(line, "#")
      kept == SelectSeq(lines, Keep)
  IN  [i \in 1..Len(kept) |-> Strip(kept[i])]

\* self.custom_ignore_patterns after _load_ignore_rules: a missing file
\* and a failed read leave the empty list
LoadCustomIgnore(file) ==
  IF file.exists /\ file.readable THEN CustomPatterns(file.lines) ELSE <<>>

\* self.gitignore_matches after _load_ignore_rules
LoadGitignore(use_gitignore, file) ==
  IF use_gitignore /\ file.exists /\ file.parses
    THEN [given |-> TRUE, matched |-> file.matched]
    ELSE [given |-> FALSE, matched |-> {}]

\* self.user_extensions
NormalizeExtensions(arg) ==
  IF arg.given /\ arg.exts /= {}
    THEN [given |-> TRUE, exts |-> {ensure_leading_dot(e) : e \in arg.exts}]
    ELSE NoExtensions

Construct ==
  /\ pc = "new"
  /\ user_extensions' = NormalizeExtensions(extensions)
  /\ all_exclude_patterns' = DEFAULT_EXCLUDE_PATTERNS \o rules.extra
  /\ custom_ignore_patterns' = LoadCustomIgnore(rules.ignore_file)
  /\ gitignore_matches' = LoadGitignore(rules.use_gitignore, rules.gitignore)
  /\ pc' = "ready"
  /\ UNCHANGED <<env_vars, out_vars, detected_extensions, files_to_process,
                 final_extensions, scanned, idx, content, processed_count,
                 error_count, caught, result, second_run, prev_run>>

(***************************************************************************)
(* The exclusion predicate.                                                *)
(***************************************************************************)
\* the pattern matches the whole relative path or one of its parts
PatternHits(rel_path, rel_path_str, pattern) ==
  \/ fnmatch(rel_path_str, pattern)
  \/ \E i \in 1..Len(rel_path) : fnmatch(rel_path[i], pattern)

_is_excluded_by_defaults(rel_path) ==
  \E rel_path_str \in {as_posix(rel_path)} :
    \E i \in 1..Len(all_exclude_patterns) :
      PatternHits(rel_path, rel_path_str, all_exclude_patterns[i])

\* the custom patterns are matched against the whole relative path only
IsExcludedByCustom(rel_path) ==
  \E rel_path_str \in {as_posix(rel_path)} :
    \E i \in 1..Len(custom_ignore_patterns) :
      fnmatch(rel_path_str, custom_ignore_patterns[i])

IsExcludedByGitignore(rel_path) ==
  gitignore_matches.given /\ rel_path \in gitignore_matches.matched

_is_ignored(rel_path) ==
  \/ _is_excluded_by_defaults(rel_path)
  \/ IsExcludedByCustom(rel_path)
  \/ IsExcludedByGitignore(rel_path)

(***************************************************************************)
(* _collect_and_filter_files.                                              *)
(***************************************************************************)
\* the regular files root_dir.rglob('*') yields.  The custom ignore file
\* and .gitignore are left out: their names (".codeignore", ".gitignore")
\* have an empty suffix, which neither mode selects.
RegularFiles ==
  DOMAIN tree \cup (IF out_under_root /\ out_exists THEN {OutPath} ELSE {})

\* the orders in which rglob may yield the files
Orders(S) ==
  {o \in [1..Cardinality(S) -> S] : \A i, j \in DOMAIN o : o[i] = o[j] => i = j}

\* self._is_ignored(item_path) for every file rglob yields: the loop calls
\* it once for each
IgnoredTable == [p \in RegularFiles |-> _is_ignored(p)]

\* a collection loop that appends every file, ignored or not
CandidateFilesUnfiltered(order, ignored) == order

\* the candidates: the files that pass the ignore rules, in rglob's order
CandidateFiles(order, ignored) ==
  LET NotIgnored(p) == ~ignored[p]
  IN  SelectSeq(order, NotIgnored)

\* detection without the "if f.suffix" condition
DetectExtensionsAnySuffix(candidate_files) ==
  {Lower(Suffix(candidate_files[i])) : i \in 1..Len(candidate_files)}

\* {f.suffix.lower() for f in candidate_files if f.suffix}
DetectExtensions(candidate_files) ==
  {Lower(Suffix(candidate_files[i])) :
     i \in {j \in 1..Len(candidate_files) : Suffix(candidate_files[j]) /= <<>>}}

\* the extension filter
FilterByExtensions(candidate_files, target_extensions) ==
  LET Wanted(f) == Lower(Suffix(f)) \in target_extensions
  IN  SelectSeq(candidate_files, Wanted)

\* the pair _collect_and_filter_files returns, and self.detected_extensions
_collect_and_filter_files(order, ignored) ==
  LET candidate_files == CandidateFiles(order, ignored)
      detected == DetectExtensions(candidate_files)
  IN  IF user_extensions.given
        THEN [files |-> FilterByExtensions(candidate_files, user_extensions.exts),
              exts |-> user_extensions.exts,
              detected |-> detected_extensions]
      ELSE IF detected = {}
        THEN [files |-> <<>>, exts |-> {}, detected |-> detected]
      ELSE [files |-> FilterByExtensions(candidate_files, detected),
            exts |-> detected,
            detected |-> detected]

(***************************************************************************)
(* compile().                                                              *)
(***************************************************************************)
\* list.sort() of Path objects: insertion into the sorted rest
RECURSIVE InsertPath(_, _)
InsertPath(p, sorted) ==
  IF sorted = <<>> THEN <<p>>
  ELSE IF PathLess(p, Head(sorted)) THEN <<p>> \o sorted
  ELSE <<Head(sorted)>> \o InsertPath(p, Tail(sorted))

\* a compile() that leaves the list in the order collection returned it
SortPathsNone(files) == files

RECURSIVE SortPaths(_)
SortPaths(files) ==
  IF files = <<>> THEN <<>> ELSE InsertPath(Head(files), SortPaths(Tail(files)))

\* the chunks of the document
HeaderChunk(exts) == [t |-> "header", exts |-> exts]

FileChunk(path) == [t |-> "file", path |-> path]

ContentChunk(text) == [t |-> "content", text |-> text]

\* an "ERROR: ..." line; exc is the operation whose exception it prints
ErrorChunk(exc) == [t |-> "error", exc |-> exc]

NewlineChunk == [t |-> "newline"]

FooterChunk(processed, errors) ==
  [t |-> "footer", processed |-> processed, errors |-> errors]

\* the root-relative paths of the "File:" lines of a document, in order
Sections(doc) ==
  LET IsFile(c) == c.t = "file"
      fc == SelectSeq(doc, IsFile)
  IN  [i \in 1..Len(fc) |-> fc[i].path]

\* a compile() that answers an empty selection with a document of header
\* and footer only
CompileEmptyWritesFile(got) ==
  /\ pc = "ready"
  /\ Len(got.files) = 0
  /\ detected_extensions' = got.detected
  /\ files_to_process' = got.files
  /\ final_extensions' = got.exts
  /\ out_parent_exists' = TRUE
  /\ out_exists' = TRUE
  /\ out_doc' = <<HeaderChunk(got.exts), FooterChunk(0, 0)>>
  /\ result' = "false"
  /\ pc' = "done"
  /\ UNCHANGED <<env_vars, object_vars, idx, content, processed_count,
                 error_count, caught, second_run, prev_run>>

\* compile() up to "return False" for an empty selection: nothing else is done
CompileEmpty(got) ==
  /\ pc = "ready"
  /\ Len(got.files) = 0
  /\ detected_extensions' = got.detected
  /\ files_to_process' = got.files
  /\ final_extensions' = got.exts
  /\ result' = "false"
  /\ pc' = "done"
  /\ UNCHANGED <<env_vars, object_vars, out_vars, idx, content,
                 processed_count, error_count, caught, second_run, prev_run>>

\* compile() up to the try statement: collection, the sort, the counters
CompileBegin(got) ==
  /\ pc = "ready"
  /\ Len(got.files) /= 0
  /\ detected_extensions' = got.detected
  /\ files_to_process' = SortPaths(got.files)
  /\ final_extensions' = got.exts
  /\ processed_count' = 0
  /\ error_count' = 0
  /\ pc' = "open"
  /\ UNCHANGED <<env_vars, object_vars, out_vars, idx, content, caught, result,
                 second_run, prev_run>>

\* compile() from its first line: got is what _collect_and_filter_files
\* returns when rglob yields the files in some order
CompileStart ==
  /\ pc = "ready"
  /\ scanned' = RegularFiles
  /\ \E ignored \in {IgnoredTable}, order \in Orders(RegularFiles) :
       \E got \in {_collect_and_filter_files(order, ignored)} :
         CompileEmpty(got) \/ CompileBegin(got)

\* the except clauses of compile(): "except IOError" (OSError) and
\* "except Exception" both log and return False; nothing an Exception
\* subclass raises inside the try statement leaves compile()
ExceptResult(exc) ==
  IF exc = "OSError" THEN "false"
  ELSE IF exc \in {"UnboundLocalError"} THEN "false"
  ELSE "raised"

\* mkdir(parents=True, exist_ok=True), open('w') and the header
OpenOutput ==
  /\ pc = "open"
  /\ out_parent_exists' = TRUE
  /\ out_exists' = TRUE
  /\ out_doc' = <<HeaderChunk(final_extensions)>>
  /\ idx' = 1
  /\ pc' = "loop"
  /\ UNCHANGED <<env_vars, object_vars, detected_extensions, files_to_process,
                 final_extensions, scanned, content, processed_count,
                 error_count, caught, result, second_run, prev_run>>

\* mkdir, open or a write of the header raises: the except clauses of
\* compile() return False
OpenFail ==
  /\ pc = "open"
  /\ \E stage \in {"mkdir", "open", "write"} :
       /\ out_parent_exists' = (out_parent_exists \/ stage /= "mkdir")
       /\ out_exists' = (out_exists \/ stage = "write")
       /\ out_doc' = IF stage = "write" THEN <<>> ELSE out_doc
  /\ caught' = "OSError"
  /\ result' = ExceptResult("OSError")
  /\ pc' = "done"
  /\ UNCHANGED <<env_vars, object_vars, detected_extensions, files_to_process,
                 final_extensions, scanned, idx, content, processed_count,
                 error_count, second_run, prev_run>>

\* what reading files_to_process[idx] does
KindsOf(path) == IF path \in DOMAIN tree THEN {tree[path]} ELSE OutKinds

\* a read with no latin-1 fallback
ReadSucceedsUtf8Only(kind) == kind.read = "utf8"

ReadSucceeds(kind) == kind.read \in {"utf8", "latin1"}

\* the local variable content after the try statement of the loop body
ContentAfterRead(kind) == IF ReadSucceeds(kind) THEN Bound(kind.content) ELSE content

\* the chunks one iteration writes before the check of content.  The write
\* of the content is inside the try statement of the loop body: when it
\* raises OSError, the except clauses meant for the read write their
\* "ERROR:" line in its place.
SectionChunks(path, kind, wrote) ==
  <<FileChunk(path),
    IF ~ReadSucceeds(kind) THEN ErrorChunk("read")
    ELSE IF wrote THEN ContentChunk(kind.content)
    ELSE ErrorChunk("write")>>

\* "if content and not content.endswith('\n')" for a bound content
NeedsNewline(text) == text /= <<>> /\ ~EndsWith(text, "\n")

\* one iteration of the for loop.  When content is still unbound at the
\* check, the UnboundLocalError leaves the loop and the with statement and
\* "except Exception" returns False.
ProcessFile ==
  /\ pc = "loop"
  /\ idx <= Len(files_to_process)
  /\ \E kind \in KindsOf(files_to_process[idx]), wrote \in BOOLEAN :
       LET path == files_to_process[idx]
           after == ContentAfterRead(kind)
           written == out_doc \o SectionChunks(path, kind, wrote)
           ok == ReadSucceeds(kind) /\ wrote
       IN  /\ ReadSucceeds(kind) \/ wrote
           /\ content' = after
           /\ processed_count' = processed_count + (IF ok THEN 1 ELSE 0)
           /\ error_count' = error_count + (IF ok THEN 0 ELSE 1)
           /\ IF ~after.bound
                THEN /\ out_doc' = written
                     /\ caught' = "UnboundLocalError"
                     /\ result' = ExceptResult("UnboundLocalError")
                     /\ pc' = "done"
                     /\ idx' = idx
                ELSE /\ out_doc' = IF NeedsNewline(after.text)
                                     THEN Append(written, NewlineChunk)
                                     ELSE written
                     /\ idx' = idx + 1
                     /\ UNCHANGED <<caught, result, pc>>
  /\ UNCHANGED <<env_vars, object_vars, out_parent_exists, out_exists,
                 detected_extensions, files_to_process, final_extensions,
                 scanned, second_run, prev_run>>

\* a write to the open output file outside the try statement of the loop
\* body (the lines of a section header, an "ERROR:" line, the inserted
\* newline, the footer) raises OSError: "except IOError" returns False and
\* the document stays as far as it was written
WriteFail ==
  /\ pc = "loop"
  /\ caught' = "OSError"
  /\ result' = ExceptResult("OSError")
  /\ pc' = "done"
  /\ UNCHANGED <<env_vars, object_vars, out_vars, detected_extensions,
                 files_to_process, final_extensions, scanned, idx, content,
                 processed_count, error_count, second_run, prev_run>>

\* the footer, the close of the file and "return True"
WriteFooter ==
  /\ pc = "loop"
  /\ idx > Len(files_to_process)
  /\ out_doc' = Append(out_doc, FooterChunk(processed_count, error_count))
  /\ result' = "true"
  /\ pc' = "done"
  /\ UNCHANGED <<env_vars, object_vars, out_parent_exists, out_exists,
                 detected_extensions, files_to_process, final_extensions,
                 scanned, idx, content, processed_count, error_count, caught,
                 second_run, prev_run>>

\* the sections the run that has just returned wrote
RunSections == IF idx = 0 THEN <<>> ELSE Sections(out_doc)

\* compile() is called again, with the same configuration
CompileAgain ==
  /\ pc = "done"
  /\ ~second_run
  /\ second_run' = TRUE
  /\ prev_run' = [sections |-> RunSections, caught |-> caught]
  /\ pc' = "ready"
  /\ result' = "none"
  /\ caught' = "none"
  /\ scanned' = {}
  /\ idx' = 0
  /\ content' = Unbound
  /\ files_to_process' = <<>>
  /\ final_extensions' = {}
  /\ processed_count' = 0
  /\ error_count' = 0
  /\ UNCHANGED <<env_vars, object_vars, out_vars, detected_extensions>>

Next ==
  \/ Construct
  \/ CompileStart
  \/ OpenOutput
  \/ OpenFail
  \/ ProcessFile
  \/ WriteFail
  \/ WriteFooter
  \/ CompileAgain

Spec == Init /\ [][Next]_vars

(***************************************************************************)
(* What the claims speak of.                                               *)
(***************************************************************************)
\* the files of S that the ignore rules let through
Survivors(S) == {p \in S : ~_is_ignored(p)}

\* the resolved extension set: the explicit one, or the lowercase suffixes
\* of the survivors that have one
ResolvedExtensions(surv) ==
  IF user_extensions.given
    THEN user_extensions.exts
    ELSE {Lower(Suffix(p)) : p \in {q \in surv : Suffix(q) /= <<>>}}

\* the files of S that pass the ignore rules and the extension filter
SelectionOf(S) ==
  LET surv == Survivors(S)
      exts == ResolvedExtensions(surv)
  IN  {p \in surv : Lower(Suffix(p)) \in exts}

\* p passes the extension filter and the ignore rules.  With the extensions
\* detected, the suffix of a file the rules let through is in the resolved
\* set exactly when it is not empty.
Passes(p) ==
  /\ IF user_extensions.given
       THEN Lower(Suffix(p)) \in user_extensions.exts
       ELSE Suffix(p) /= <<>>
  /\ ~_is_ignored(p)

\* no file of S passes the ignore rules and the extension filter
NothingSelected(S) == \A p \in S : ~Passes(p)

\* the set of files with a "File:" section in what this run wrote
SectionSet == {RunSections[i] : i \in 1..Len(RunSections)}

ErrorChunks(doc) == {i \in 1..Len(doc) : doc[i].t = "error"}

\* the "ERROR:" lines of a failed read
ReadErrorChunks(doc) == {i \in ErrorChunks(doc) : doc[i].exc = "read"}

\* the "ERROR:" lines of a failed write of a file's content
WriteErrorChunks(doc) == {i \in ErrorChunks(doc) : doc[i].exc = "write"}

\* C1: after compile() has finished (the destination being writable), the
\* files with a per-file section are exactly the scanned regular files that
\* are not ignored and whose lowercase suffix is in the resolved extension
\* set
C1_SectionsAreTheSelection ==
  (pc = "done" /\ caught /= "OSError") => SectionSet = SelectionOf(scanned)

\* C2: no file the exclusion predicate holds for has a per-file section,
\* whatever the extension set; with the extra pattern "secrets/*" the
\* predicate holds for secrets/key.txt
C2_IgnoredNeverWritten ==
  /\ \A i \in 1..Len(out_doc) :
       out_doc[i].t = "file" => ~_is_ignored(out_doc[i].path)
  /\ (pc /= "new" /\ rules.extra = <<X_secrets_star>>)
       => _is_ignored(P_secrets_key_txt)

C2_Witness ==
  /\ pc = "done"
  /\ result = "true"
  /\ rules.extra = <<X_secrets_star>>
  /\ P_secrets_key_txt \in scanned
  /\ P_secrets_key_txt \notin gitignore_matches.matched
  /\ user_extensions.given
  /\ Lower(Suffix(P_secrets_key_txt)) \in user_extensions.exts
  /\ SectionSet = {P_a_dash_b_py}

\* C3 as claimed: the sections are in the character-wise order of the
\* POSIX path strings
C3_StringOrder ==
  \A i, j \in 1..Len(RunSections) :
    i < j => StrLess(as_posix(RunSections[i]), as_posix(RunSections[j]))

\* C3 as amended: the sections are in the order of the paths compared
\* segment by segment, each segment character-wise
C3_SegmentOrder ==
  \A i, j \in 1..Len(RunSections) :
    i < j => PathLess(RunSections[i], RunSections[j])

C3_Witness ==
  /\ pc = "done"
  /\ result = "true"
  /\ RunSections = <<P_a_b_py, P_a_dash_b_py>>
  /\ StrLess(as_posix(P_a_dash_b_py), as_posix(P_a_b_py))

\* C4: a run in which reading a selected file failed (the destination
\* being writable) ends with the footer, with every failed read counted,
\* and returns True
C4_ReadFailureIsNotFatal ==
  (pc = "done" /\ idx >= 1 /\ caught /= "OSError"
     /\ ReadErrorChunks(out_doc) /= {})
    => /\ result = "true"
       /\ out_doc[Len(out_doc)].t = "footer"
       /\ error_count = Cardinality(ErrorChunks(out_doc))

\* C5: a newline is inserted after a file's section only for that file's
\* own content, read in this iteration and lacking a final newline; none
\* is inserted after the section of a file whose read failed
C5_NewlineOnlyForOwnContent ==
  \A i \in 2..Len(out_doc) :
    out_doc[i].t = "newline"
      => \/ out_doc[i - 1].t = "content" /\ ~EndsWith(out_doc[i - 1].text, "\n")
         \/ i - 1 \in WriteErrorChunks(out_doc)

\* C6: the second of two runs in a row (the destination being writable in
\* both) writes the same per-file sections in the same order as the first
C6_SecondRunSameSections ==
  (second_run /\ pc = "done" /\ caught /= "OSError" /\ prev_run.caught /= "OSError")
    => RunSections = prev_run.sections

\* C7: compile() called when no file passes the ignore rules and the
\* extension filter returns False and leaves the parent directory and
\* the output file as they were
C7_EmptySelectionLeavesOutput ==
  [][(pc = "ready" /\ NothingSelected(RegularFiles))
       => (pc' = "done" /\ result' = "false" /\ UNCHANGED out_vars)]_vars

C7_Witness ==
  /\ pc = "done"
  /\ result = "false"
  /\ caught = "none"
  /\ ~user_extensions.given
  /\ P_README \in scanned
  /\ ~_is_ignored(P_README)
  /\ files_to_process = <<>>
  /\ ~out_parent_exists
  /\ ~out_exists

\* C8: in auto-detect mode no selected file has an empty suffix, and the
\* extension set collection returns, which the header prints, is the set
\* of the lowercase suffixes of the selected files
C8_AutoDetectExtensions ==
  (~user_extensions.given /\ pc \in {"open", "loop", "done"})
    => /\ \A i \in 1..Len(files_to_process) : Suffix(files_to_process[i]) /= <<>>
       /\ final_extensions =
            {Lower(Suffix(files_to_process[i])) : i \in 1..Len(files_to_process)}
       /\ idx >= 1 => (out_doc[1].t = "header" /\ out_doc[1].exts = final_extensions)

C8_Witness ==
  /\ pc = "done"
  /\ result = "true"
  /\ ~user_extensions.given
  /\ P_README \in scanned
  /\ ~_is_ignored(P_README)
  /\ RunSections = <<P_M_PY>>
  /\ final_extensions = {<<".", "p", "y">>}

\* the patterns C9 says the lines of the custom ignore file give: each line
\* trimmed, those dropped that are then empty or then start with "#"
PatternsAfterTrimming(lines) ==
  LET trimmed == [i \in 1..Len(lines) |-> Strip(lines[i])]
      Keep(l) == l /= <<>> /\ ~StartsWith(l, "#")
  IN  SelectSeq(trimmed, Keep)

\* C9: the custom ignore file gives one pattern for each line that, after
\* trimming, is not empty and does not start with "#", in file order
C9_CommentsAfterTrimming ==
  (pc /= "new" /\ rules.ignore_file.readable)
    => custom_ignore_patterns = PatternsAfterTrimming(rules.ignore_file.lines)

\* C11: a file is excluded when a pattern of the custom ignore file matches
\* its root-relative POSIX path or any one of its segments, as for the
\* default and extra patterns: a bare directory name excludes the files
\* under a directory of that name
C11_CustomPatternsDualTest ==
  pc /= "new" =>
    \A p \in RegularFiles :
      (\E i \in 1..Len(custom_ignore_patterns) :
         PatternHits(p, as_posix(p), custom_ignore_patterns[i]))
        => _is_ignored(p)

\* the chunks of kind t in a document
ChunksOf(doc, t) == {i \in 1..Len(doc) : doc[i].t = t}

C10_OutputFailureReturnsFalse ==
  /\ result /= "raised"
  /\ (pc = "done"
        /\ (caught = "OSError" \/ (idx >= 1 /\ WriteErrorChunks(out_doc) /= {})))
       => result = "false"

====
